---- MODULE Spec2Model ----
(***************************************************************************)
(* Model of the short-term rental price pipeline's cleaning step           *)
(* (src/basic_cleaning/run.py) and of its data checks                      *)
(* (src/data_check/test_data.py).                                          *)
(*                                                                         *)
(* A DataFrame is modelled as a bag of rows: no modelled code reads the    *)
(* order of the rows (between/all/unique/value_counts/shape[0] and boolean *)
(* indexing are all insensitive to it).  A row keeps the columns the code  *)
(* reads.  Floats are modelled exactly: longitude and latitude in          *)
(* hundredths of a degree, prices as integers, NaN as a distinguished      *)
(* value.                                                                  *)
(***************************************************************************)
EXTENDS Bags, FiniteSets, Integers, Sequences, TLC

VARIABLES
    columns,     \* data.columns.values: the sequence of column names
    artifact,    \* the input artifact read by go (pd.read_csv), never modified
    data,        \* the DataFrame under test (raw, or as written by go)
    ref_data,    \* the reference DataFrame of test_similar_neigh_distrib
    args,        \* min_price, max_price, kl_threshold
    stage,       \* "raw" | "clean" (go wrote clean_sample.csv) | "failed" (go raised)
    outcome,     \* the last step run and how it ended
    terms,       \* the terms of the last divergence computation, or NoTerms
    edits        \* how the frame under test was derived from a well-formed one

vars == <<columns, artifact, data, ref_data, args, stage, outcome, terms, edits>>

\* NaN of a float column: a value outside every range used, never compared by
\* magnitude (between tests for it first).
NaN == -999999
\* A missing value of a string column.
Null == "NaN"
\* kl_threshold = float("inf"), never compared by magnitude.
Inf == 999999

NoTerms == [computed |-> FALSE, pairs |-> <<>>, p_den |-> 0, q_den |-> 0]

NoOutcome == [test |-> "none", result |-> "none"]

Ended(t, r) == [test |-> t, result |-> r]

\* An assert statement: passes when its condition holds, AssertionError otherwise.
Assert_(t, cond) == Ended(t, IF cond THEN "pass" ELSE "fail")

(***************************************************************************)
(* Bags of rows                                                            *)
(***************************************************************************)
RECURSIVE SumOver(_, _)
SumOver(S, f) ==
    IF S = {} THEN 0
    ELSE LET x == CHOOSE y \in S : TRUE
         IN f[x] + SumOver(S \ {x}, f)

\* df[idx]: the rows of df on which the boolean mask is True, S being those rows.
Select(df, S) == [r \in S \cap DOMAIN df |-> df[r]]

\* All bags over S with at most n elements.
RECURSIVE BagsOver(_, _)
BagsOver(S, n) ==
    IF S = {} THEN {EmptyBag}
    ELSE LET x == CHOOSE y \in S : TRUE
         IN UNION {
              {IF k = 0 THEN b ELSE b (+) [y \in {x} |-> k] : b \in BagsOver(S \ {x}, n - k)}
              : k \in 0..n}

\* n copies of row r.
Copies(r, n) == IF n = 0 THEN EmptyBag ELSE [y \in {r} |-> n]

(***************************************************************************)
(* pandas Series.between(left, right): inclusive on both sides, False for  *)
(* NaN.                                                                    *)
(***************************************************************************)
between_exclusive(x, left, right) == x # NaN /\ x > left /\ x < right

between(x, left, right) == x # NaN /\ x >= left /\ x <= right

\* Bounding box of run.py:34 and test_data.py:71-72, in hundredths of a degree.
lon_left == -7425
lon_right == -7350
lat_left == 4050
lat_right == 4120

mask_either(r) ==
    between(r.longitude, lon_left, lon_right) \/ between(r.latitude, lat_left, lat_right)

\* idx = longitude.between(-74.25, -73.50) & latitude.between(40.5, 41.2)
mask_boundaries(r) ==
    between(r.longitude, lon_left, lon_right) /\ between(r.latitude, lat_left, lat_right)

(***************************************************************************)
(* basic_cleaning/run.py                                                   *)
(***************************************************************************)
Date == "2019-05-21"
Unparseable == "not a date"

\* pd.to_datetime on one value of last_review.
to_datetime(v) == IF v = Null THEN "NaT" ELSE "datetime"

with_datetime(r) == [r EXCEPT !.last_review = to_datetime(r.last_review)]

\* df['last_review'] = pd.to_datetime(df['last_review'])
assign_last_review(df) ==
    LET T == {with_datetime(r) : r \in DOMAIN df}
    IN [t \in T |-> SumOver({r \in DOMAIN df : with_datetime(r) = t}, df)]

\* idx = df['price'].between(args.min_price, args.max_price)
price_mask(r, a) == between(r.price, a.min_price, a.max_price)

go_keeps_boundaries_unfiltered(df) == df

\* idv = ...; df = df[idv].copy()
go_keeps_boundaries(df) == Select(df, {r \in DOMAIN df : mask_boundaries(r)})

go ==
    /\ stage = "raw"
    /\ LET df1 == Select(artifact, {r \in DOMAIN artifact : price_mask(r, args)})
       IN IF \E r \in DOMAIN df1 : r.last_review = Unparseable
          THEN \* pd.to_datetime raises: nothing is written
               /\ stage' = "failed"
               /\ outcome' = Ended("go", "error")
               /\ data' = data
          ELSE /\ stage' = "clean"
               /\ outcome' = Ended("go", "done")
               /\ data' = go_keeps_boundaries(assign_last_review(df1))
    /\ UNCHANGED <<columns, artifact, ref_data, args, terms, edits>>

(***************************************************************************)
(* data_check/test_data.py                                                 *)
(***************************************************************************)
Run(t, res) ==
    /\ outcome' = res
    /\ UNCHANGED <<columns, artifact, data, ref_data, args, stage, terms, edits>>

\* assert np.sum(~idx) == 0
boundaries_ok(df) == SumOver({r \in DOMAIN df : ~mask_boundaries(r)}, df) = 0

test_proper_boundaries ==
    Run("test_proper_boundaries", Assert_("test_proper_boundaries", boundaries_ok(data)))

price_range_ok_exclusive(df, min_price, max_price) ==
    \A r \in DOMAIN df : between_exclusive(r.price, min_price, max_price)

\* assert data['price'].between(min_price, max_price).all()
price_range_ok(df, min_price, max_price) ==
    \A r \in DOMAIN df : between(r.price, min_price, max_price)

test_price_range ==
    Run("test_price_range",
        Assert_("test_price_range", price_range_ok(data, args.min_price, args.max_price)))

(***************************************************************************)
(* Cleaning followed by the range and boundary checks                      *)
(***************************************************************************)
MaxRows == 3

NominalRow ==
    [neighbourhood_group |-> "Bronx", latitude |-> lat_left, longitude |-> lon_left,
     price |-> 10, last_review |-> Date]

PriceValues == {NaN, 9, 10, 11, 12}
PriceArgs == {10, 11}
LonValues == {NaN, lon_left - 1, lon_left, lon_right, lon_right + 1}
LatValues == {NaN, lat_left - 1, lat_left, lat_right, lat_right + 1}

\* Rows off in their price, rows off in one coordinate, and rows whose
\* last_review is missing or is no date.
RawRows ==
    {[NominalRow EXCEPT !.price = p] : p \in PriceValues}
    \cup {[NominalRow EXCEPT !.longitude = x, !.latitude = lat_right] : x \in LonValues}
    \cup {[NominalRow EXCEPT !.longitude = lon_right, !.latitude = y] : y \in LatValues}
    \cup {[NominalRow EXCEPT !.price = p, !.longitude = x, !.last_review = Unparseable] :
            p \in {9, 10}, x \in {lon_left - 1, lon_right}}
    \cup {[NominalRow EXCEPT !.last_review = Null]}

ExpectedColumns ==
    <<"id", "name", "host_id", "host_name", "neighbourhood_group", "neighbourhood",
      "latitude", "longitude", "room_type", "price", "minimum_nights",
      "number_of_reviews", "last_review", "reviews_per_month",
      "calculated_host_listings_count", "availability_365">>

NoArgs == [min_price |-> 10, max_price |-> 11, kl_threshold |-> Inf]

Init ==
    /\ columns = ExpectedColumns
    /\ artifact \in BagsOver(RawRows, MaxRows)
    /\ data = artifact
    /\ ref_data = EmptyBag
    /\ args \in [min_price : PriceArgs, max_price : PriceArgs, kl_threshold : {Inf}]
    /\ stage = "raw"
    /\ outcome = NoOutcome
    /\ terms = NoTerms
    /\ edits = <<>>

Next ==
    \/ go
    \/ test_price_range
    \/ test_proper_boundaries

Spec == Init /\ [][Next]_vars


(***************************************************************************)
(* C3, C8, C10                                                             *)
(***************************************************************************)
InBox(r) ==
    /\ r.longitude # NaN /\ -7425 <= r.longitude /\ r.longitude <= -7350
    /\ r.latitude # NaN /\ 4050 <= r.latitude /\ r.latitude <= 4120

InPrice(r) == r.price # NaN /\ args.min_price <= r.price /\ r.price <= args.max_price

\* C3: test_proper_boundaries passes if and only if every row has longitude in
\* [-74.25, -73.50] and latitude in [40.5, 41.2] at once, boundary values included;
\* one row outside either interval fails the whole check.
C3_BoundariesIff ==
    outcome.test = "test_proper_boundaries" =>
        (outcome.result = "pass" <=> \A r \in DOMAIN data : InBox(r))

\* Two rows on opposite corners of the box, and the check passed.
C3_Witness ==
    /\ outcome = Ended("test_proper_boundaries", "pass")
    /\ \E r \in DOMAIN data : r.longitude = -7425 /\ r.latitude = 4120
    /\ \E r \in DOMAIN data : r.longitude = -7350 /\ r.latitude = 4050

\* C8: test_price_range passes if and only if every price lies in
\* [min_price, max_price], both ends accepted; one price outside fails the check.
C8_PriceRangeIff ==
    outcome.test = "test_price_range" =>
        (outcome.result = "pass" <=> \A r \in DOMAIN data : InPrice(r))

\* A frame holding a price equal to min_price and one equal to max_price passed.
C8_Witness ==
    /\ outcome = Ended("test_price_range", "pass")
    /\ args.min_price < args.max_price
    /\ \E r \in DOMAIN data : r.price = args.min_price
    /\ \E r \in DOMAIN data : r.price = args.max_price

Kept ==
    LET S == {r \in DOMAIN artifact : InPrice(r) /\ InBox(r)}
    IN [t \in {with_datetime(r) : r \in S} |->
          SumOver({r \in S : with_datetime(r) = t}, artifact)]

\* C10: the frame go writes holds exactly the input rows with price in
\* [min_price, max_price] and coordinates in the box (last_review converted), and
\* the price range check with the same arguments and the boundary check pass on it.
C10_CleanPassesChecks ==
    stage = "clean" =>
        /\ data = Kept
        /\ \A r \in DOMAIN data : InPrice(r) /\ InBox(r)
        /\ outcome.test \in {"test_price_range", "test_proper_boundaries"}
               => outcome.result = "pass"

\* go dropped a row for its price and a row for its coordinates, kept a row, and
\* a check then passed on what it wrote.
C10_Witness ==
    /\ stage = "clean"
    /\ outcome = Ended("test_proper_boundaries", "pass")
    /\ data # EmptyBag
    /\ \E r \in DOMAIN artifact : ~InPrice(r)
    /\ \E r \in DOMAIN artifact : InPrice(r) /\ ~InBox(r)

(***************************************************************************)
(* test_row_count                                                          *)
(***************************************************************************)
min_rows == 15000
max_rows == 1000000

row_count_ok_inclusive(df) == min_rows <= BagCardinality(df) /\ BagCardinality(df) <= max_rows

\* assert 15000 < data.shape[0] < 1000000
row_count_ok(df) == min_rows < BagCardinality(df) /\ BagCardinality(df) < max_rows

test_row_count == Run("test_row_count", Assert_("test_row_count", row_count_ok(data)))

\* Row counts within RowWindow of either limit.
RowWindow == 15

RowCounts ==
    (min_rows - RowWindow)..(min_rows + RowWindow)
    \cup (max_rows - RowWindow)..(max_rows + RowWindow)

InitRows ==
    /\ columns = ExpectedColumns
    /\ \E n \in RowCounts, r \in {NominalRow, [NominalRow EXCEPT !.price = NaN]} :
          data = Copies(r, n)
    /\ artifact = data
    /\ ref_data = EmptyBag
    /\ args = NoArgs
    /\ stage = "raw"
    /\ outcome = NoOutcome
    /\ terms = NoTerms
    /\ edits = <<>>

NextRows == test_row_count

SpecRows == InitRows /\ [][NextRows]_vars

\* C7: test_row_count passes if and only if 15000 < n < 1000000: 15000 and 1000000
\* rows fail, 15001 and 999999 rows pass.
C7_RowCountIff ==
    outcome.test = "test_row_count" =>
        LET n == BagCardinality(data)
        IN /\ outcome.result = "pass" <=> (n > 15000 /\ n < 1000000)
           /\ n = 15000 => outcome.result = "fail"
           /\ n = 15001 => outcome.result = "pass"
           /\ n = 999999 => outcome.result = "pass"
           /\ n = 1000000 => outcome.result = "fail"

\* A frame of exactly 15000 rows failed.
C7_Witness ==
    /\ outcome = Ended("test_row_count", "fail")
    /\ BagCardinality(data) = 15000

(***************************************************************************)
(* test_column_names                                                       *)
(***************************************************************************)
Range(s) == {s[i] : i \in DOMAIN s}

columns_match_unordered(expected_colums, these_columns) ==
    Range(expected_colums) = Range(these_columns)

\* list(expected_colums) == list(these_columns)
columns_match(expected_colums, these_columns) == expected_colums = these_columns

test_column_names ==
    Run("test_column_names",
        Assert_("test_column_names", columns_match(ExpectedColumns, columns)))

\* Frames derived from a well-formed one by at most MaxEdits column edits.
MaxEdits == 1

OtherNames == {"geometry", "id"}

Edit(kind, cols) ==
    /\ Len(edits) < MaxEdits
    /\ columns' = cols
    /\ edits' = Append(edits, kind)
    /\ outcome' = NoOutcome
    /\ UNCHANGED <<artifact, data, ref_data, args, stage, terms>>

SwapColumns ==
    \E i, j \in DOMAIN columns :
        /\ i < j
        /\ Edit("permute", [columns EXCEPT ![i] = columns[j], ![j] = columns[i]])

AddColumn ==
    \E i \in 0..Len(columns), c \in OtherNames :
        Edit("add", SubSeq(columns, 1, i) \o <<c>> \o SubSeq(columns, i + 1, Len(columns)))

RemoveColumn ==
    \E i \in DOMAIN columns :
        Edit("remove", SubSeq(columns, 1, i - 1) \o SubSeq(columns, i + 1, Len(columns)))

InitSchema ==
    /\ columns = ExpectedColumns
    /\ data = EmptyBag
    /\ artifact = data
    /\ ref_data = EmptyBag
    /\ args = NoArgs
    /\ stage = "raw"
    /\ outcome = NoOutcome
    /\ terms = NoTerms
    /\ edits = <<>>

NextSchema ==
    \/ SwapColumns
    \/ AddColumn
    \/ RemoveColumn
    \/ test_column_names

SpecSchema == InitSchema /\ [][NextSchema]_vars

\* C1: test_column_names passes if and only if the frame's column names equal the
\* expected 16 names position by position; a frame obtained from a well-formed one
\* by permuting columns, adding a column or removing a column fails.
C1_ColumnNamesIff ==
    outcome.test = "test_column_names" =>
        /\ outcome.result = "pass" <=>
              (Len(columns) = 16 /\ \A i \in 1..16 : columns[i] = ExpectedColumns[i])
        /\ Len(edits) = 1 => outcome.result = "fail"

\* The check failed on a frame holding the 16 expected names in another order.
C1_Witness ==
    /\ outcome = Ended("test_column_names", "fail")
    /\ edits = <<"permute">>
    /\ Range(columns) = Range(ExpectedColumns)
    /\ Len(columns) = 16

(***************************************************************************)
(* test_neighborhood_names                                                 *)
(***************************************************************************)
known_names == {"Bronx", "Brooklyn", "Manhattan", "Queens", "Staten Island"}

unique_dropna(df) == {r.neighbourhood_group : r \in DOMAIN df} \ {Null}

\* set(data['neighbourhood_group'].unique()): unique keeps a missing value.
unique(df) == {r.neighbourhood_group : r \in DOMAIN df}

test_neighborhood_names ==
    Run("test_neighborhood_names",
        Assert_("test_neighborhood_names", known_names = unique(data)))

MaxNeighRows == 6

NeighRows ==
    {[NominalRow EXCEPT !.neighbourhood_group = g] :
        g \in known_names \cup {"Jersey City", Null}}

InitNeigh ==
    /\ columns = ExpectedColumns
    /\ data \in BagsOver(NeighRows, MaxNeighRows)
    /\ artifact = data
    /\ ref_data = EmptyBag
    /\ args = NoArgs
    /\ stage = "raw"
    /\ outcome = NoOutcome
    /\ terms = NoTerms
    /\ edits = <<>>

NextNeigh == test_neighborhood_names

SpecNeigh == InitNeigh /\ [][NextNeigh]_vars

NonNullGroups == {r.neighbourhood_group : r \in {x \in DOMAIN data : x.neighbourhood_group # Null}}

\* C2 as stated: test_neighborhood_names passes if and only if the set of distinct
\* non-null values of neighbourhood_group equals the five boroughs, so that null
\* entries do not count as a category.
C2_NullsIgnored ==
    outcome.test = "test_neighborhood_names" =>
        (outcome.result = "pass" <=> NonNullGroups = known_names)

\* C2 amended: test_neighborhood_names passes if and only if the set of distinct
\* values of neighbourhood_group, a missing value counting as a value, equals the
\* five boroughs: an extra category, a missing category or a null entry fails it.
C2_NullsCount ==
    outcome.test = "test_neighborhood_names" =>
        (outcome.result = "pass" <=>
            /\ NonNullGroups = known_names
            /\ \A r \in DOMAIN data : r.neighbourhood_group # Null)

\* All five boroughs and a null entry: the check failed.
C2_Witness ==
    /\ outcome = Ended("test_neighborhood_names", "fail")
    /\ NonNullGroups = known_names
    /\ \E r \in DOMAIN data : r.neighbourhood_group = Null


(***************************************************************************)
(* test_similar_neigh_distrib                                              *)
(***************************************************************************)
\* Ascending order of the index labels, as sort_index leaves them.
LabelOrder ==
    <<"Bronx", "Brooklyn", "Jersey City", "Manhattan", "Queens", "Staten Island">>

Count(df, g) == SumOver({r \in DOMAIN df : r.neighbourhood_group = g}, df)

value_counts_keepna(df) == [g \in unique(df) |-> Count(df, g)]

\* Series.value_counts(): one count per distinct value, missing values dropped.
value_counts(df) == [g \in unique(df) \ {Null} |-> Count(df, g)]

\* Series.sort_index(): the (label, count) entries by ascending label.
sort_index(vc) ==
    LET present == SelectSeq(LabelOrder \o <<Null>>, LAMBDA g : g \in DOMAIN vc)
    IN [i \in 1..Len(present) |-> [label |-> present[i], count |-> vc[present[i]]]]

RECURSIVE SumSeq(_, _)
SumSeq(s, n) == IF n = 0 THEN 0 ELSE s[n].count + SumSeq(s, n - 1)

\* The arrays entropy(pk, qk) sums over: position i pairs the probability
\* pairs[i].p / p_den with pairs[i].q / q_den.  np.asarray drops the labels; they
\* are kept here to show what is paired with what.  Arrays of different lengths
\* make entropy raise ValueError (when one of them has length 1 newer versions
\* of scipy broadcast it instead: InitDistrib leaves those pairs of frames out).
Normalised(pk, qk) ==
    IF Len(pk) = Len(qk)
    THEN [computed |-> TRUE,
          pairs |-> [i \in 1..Len(pk) |->
                       [label |-> pk[i].label, ref_label |-> qk[i].label,
                        p |-> pk[i].count, q |-> qk[i].count]],
          p_den |-> SumSeq(pk, Len(pk)), q_den |-> SumSeq(qk, Len(qk))]
    ELSE NoTerms

RECURSIVE Pow(_, _)
Pow(b, e) == IF e = 0 THEN 1 ELSE b * Pow(b, e - 1)

RECURSIVE ProdP(_, _)
ProdP(d, n) ==
    IF n = 0 THEN 1 ELSE Pow(d.pairs[n].p * d.q_den, d.pairs[n].p) * ProdP(d, n - 1)

RECURSIVE ProdQ(_, _)
ProdQ(d, n) ==
    IF n = 0 THEN 1 ELSE Pow(d.pairs[n].q * d.p_den, d.pairs[n].p) * ProdQ(d, n - 1)

\* How S = sum(rel_entr(p, q)) / log(2) compares with t.  With p_i = a_i / A and
\* q_i = b_i / B, all positive, A * S = log2(prod (a_i B)^a_i / prod (b_i A)^a_i),
\* so S < t exactly when prod (a_i B)^a_i < 2^(A t) * prod (b_i A)^a_i.  The sum
\* over no terms is 0.  Every q_i is positive, so S is finite.
Compare(d, t) ==
    LET n == Len(d.pairs)
        lhs == IF n = 0 THEN 0 ELSE ProdP(d, n)
        rhs == IF n = 0 THEN t ELSE Pow(2, d.p_den * t) * ProdQ(d, n)
    IN IF t = Inf \/ lhs < rhs THEN "lt"
       ELSE IF lhs = rhs THEN "eq" ELSE "gt"

at_most_threshold(d, kl_threshold) == Compare(d, kl_threshold) \in {"lt", "eq"}

\* scipy.stats.entropy(dist1, dist2, base=2) < kl_threshold
below_threshold(d, kl_threshold) == Compare(d, kl_threshold) = "lt"

test_similar_neigh_distrib ==
    LET dist1 == sort_index(value_counts(data))
        dist2 == sort_index(value_counts(ref_data))
        d == Normalised(dist1, dist2)
    IN /\ terms' = d
       /\ outcome' = IF d.computed
                     THEN Assert_("test_similar_neigh_distrib",
                                  below_threshold(d, args.kl_threshold))
                     ELSE Ended("test_similar_neigh_distrib", "error")
       /\ UNCHANGED <<columns, artifact, data, ref_data, args, stage, edits>>

\* At most MaxDistRows rows in the frame and MaxRefRows in the reference frame.
MaxDistRows == 3
MaxRefRows == 7

KlThresholds == {0, 1, Inf}

DistRows ==
    {[NominalRow EXCEPT !.neighbourhood_group = g] :
        g \in {"Bronx", "Brooklyn", "Manhattan", Null}}

\* The pairs of frames on which every version of scipy.stats.entropy does the
\* same: as many categories in both, or neither with exactly one.
SameShapeRule(df, ref) ==
    LET n1 == Cardinality(DOMAIN value_counts(df))
        n2 == Cardinality(DOMAIN value_counts(ref))
    IN n1 = n2 \/ (n1 # 1 /\ n2 # 1)

InitDistrib ==
    /\ columns = ExpectedColumns
    /\ data \in BagsOver(DistRows, MaxDistRows)
    /\ artifact = data
    /\ ref_data \in BagsOver(DistRows, MaxRefRows)
    /\ SameShapeRule(data, ref_data)
    /\ args \in [min_price : {10}, max_price : {11}, kl_threshold : KlThresholds]
    /\ stage = "raw"
    /\ outcome = NoOutcome
    /\ terms = NoTerms
    /\ edits = <<>>

NextDistrib == test_similar_neigh_distrib

SpecDistrib == InitDistrib /\ [][NextDistrib]_vars

Groups(df) == {r.neighbourhood_group : r \in {x \in DOMAIN df : x.neighbourhood_group # Null}}

Similar == outcome.test = "test_similar_neigh_distrib"

C6_AbsentCategoryIsError ==
    (Similar /\ Groups(data) \ Groups(ref_data) # {}) => outcome.result = "error"

\* C9: every frequency of the frame is paired with the reference frequency of the
\* same category label.
C9_PairedByLabel ==
    (Similar /\ terms.computed) =>
        \A i \in DOMAIN terms.pairs : terms.pairs[i].label = terms.pairs[i].ref_label

====
